---- MODULE Spec2Model ----
(***************************************************************************)
(* The process memory-space core of the kernel: MemSpace (gaps, gap        *)
(* buckets, mappings, VMem), MemMapping (map_default, map, update_vmem,    *)
(* fork), the physical reference counter and the default page.             *)
(*                                                                         *)
(* Addresses are counted in pages (PAGE_SIZE is the unit), so a virtual    *)
(* pointer is a page number of the window [ALLOC_BEGIN, PROCESS_END) and a *)
(* physical pointer is a frame number.  A page's 4 KiB content is one of   *)
(* "junk" (never initialised), "zero" and "data".  An Option is a set with *)
(* at most one element: None is {} and Some(x) is {x}.                     *)
(***************************************************************************)
EXTENDS Integers, Sequences, FiniteSets, TLC

(* ------------------------------ bounds --------------------------------- *)
\* Number of pages of the window [ALLOC_BEGIN, PROCESS_END).
NumPages == 2
\* Number of memory spaces that can exist (the first one and its forks).
MaxSpaces == 2
\* Number of frames of the buddy allocator's USER zone.
NumFrames == 2
\* Number of calls (map, fork, handle_page_fault, user store) of one run that
\* change the state.
MaxCalls == 4
\* Number of calls of one run that fail because an allocation is made to fail
\* and that change the state.
MaxOoms == 1

(* ------------------------- program constants --------------------------- *)
MAPPING_FLAG_WRITE == 1
MAPPING_FLAG_EXEC == 2
MAPPING_FLAG_USER == 4
MAPPING_FLAG_NOLAZY == 8
MAPPING_FLAG_SHARED == 16
GAPS_BUCKETS_COUNT == 8
\* memory::ALLOC_BEGIN, in pages relative to the window.
ALLOC_BEGIN == 0
\* memory::PROCESS_END, in pages relative to the window.
PROCESS_END == ALLOC_BEGIN + NumPages
\* The KERNEL-zone frame that get_default_page allocates.
DefaultFrame == 0

Pages == ALLOC_BEGIN .. (PROCESS_END - 1)
SpaceIds == 1 .. MaxSpaces
UserFrames == 1 .. NumFrames
Frames == {DefaultFrame} \cup UserFrames
Contents == {"junk", "zero", "data"}

\* The flag sets map is called with.
MapFlagChoices ==
  { MAPPING_FLAG_USER,
    MAPPING_FLAG_WRITE + MAPPING_FLAG_USER,
    MAPPING_FLAG_WRITE + MAPPING_FLAG_USER + MAPPING_FLAG_NOLAZY,
    MAPPING_FLAG_WRITE + MAPPING_FLAG_USER + MAPPING_FLAG_SHARED }

\* flags & bit != 0, for a one-bit mask.
HasFlag(flags, bit) == (flags \div bit) % 2 = 1

SetMin(S) == CHOOSE x \in S : \A y \in S : x <= y

(* --------------------------- VMem handler ------------------------------ *)
\* A page-table entry: absent, or a frame with the WRITE and USER bits.
NoEntry == [present |-> FALSE]
Entry(phys, flags) ==
  [present |-> TRUE, phys |-> phys, write |-> flags.write, user |-> flags.user]

\* VMem::translate
translate(vm, virt) == IF vm[virt].present THEN {vm[virt].phys} ELSE {}

(* ------------------- physical reference counter ------------------------ *)
\* PhysRefCounter::increment: bump the count, inserting the frame at 1.
increment(rc, frame) == [rc EXCEPT ![frame] = @ + 1]
\* PhysRefCounter::is_shared
PhysIsShared(rc, frame) == rc[frame] > 1

(* ----------------------------- buddy ----------------------------------- *)
\* buddy::alloc(0, FLAG_ZONE_TYPE_USER): the lowest free frame, or an error.
buddy_alloc(al) == IF UserFrames \ al = {} THEN {} ELSE {SetMin(UserFrames \ al)}

(* ------------------------------ gaps ----------------------------------- *)
MemGap(begin, size) == [begin |-> begin, size |-> size]

\* A faulty consume, for C1: the gap left after the consumed pages keeps the
\* beginning of the consumed gap.
consume_keeping_begin(gap, off, size) ==
  LET rest == gap.size - (off + size)
  IN  <<{}, IF rest > 0 THEN {MemGap(gap.begin, rest)} ELSE {}>>

\* A faulty consume, for C24: the pages left after the consumed ones are
\* lost.
consume_whole(gap, off, size) == <<{}, {}>>

\* The width of usize, scaled down.
UsizeBits == 16

USIZE_MAX == 2 ^ UsizeBits - 1

\* `a + b` on usize in a build without overflow checks.
wrapping_add(a, b) == (a + b) % (USIZE_MAX + 1)

\* `a + b` on usize panics in a build with overflow checks.
add_overflows(a, b) == a + b > USIZE_MAX

\* MemGap::consume(off, size): the parts of the gap before and after the
\* consumed pages, where `off + size` has not panicked.
consume(gap, off, size) ==
  LET left  == IF off # 0
               THEN {MemGap(gap.begin, IF off < gap.size THEN off ELSE gap.size)}
               ELSE {}
      end   == wrapping_add(off, size)
      rest  == gap.size - end
      right == IF rest > 0 THEN {MemGap(gap.begin + end, rest)} ELSE {}
  IN  <<left, right>>

\* MemGap::get_end, in pages.
get_end(gap) == gap.begin + gap.size

\* usize::saturating_add
saturating_add(a, b) == IF a + b > USIZE_MAX THEN USIZE_MAX ELSE a + b

\* A faulty merge, for C40: the beginning is not moved when `other` lies
\* before the gap.
merge_keeping_begin(gap, other) ==
  IF gap.begin = get_end(other) \/ get_end(gap) = other.begin
  THEN MemGap(gap.begin, saturating_add(gap.size, other.size))
  ELSE gap

\* MemGap::merge(other): the gap after the call.
merge(gap, other) ==
  IF gap.begin = get_end(other)
  THEN MemGap(other.begin, saturating_add(gap.size, other.size))
  ELSE IF get_end(gap) = other.begin
       THEN MemGap(gap.begin, saturating_add(gap.size, other.size))
       ELSE gap

RECURSIVE log2(_)
\* math::log2: the floor of the base-2 logarithm.
log2(n) == IF n <= 1 THEN 0 ELSE 1 + log2(n \div 2)

\* MemSpace::get_gap_bucket_index
get_gap_bucket_index(size) ==
  IF log2(size) < GAPS_BUCKETS_COUNT - 1 THEN log2(size) ELSE GAPS_BUCKETS_COUNT - 1

EmptyBuckets == [i \in 0 .. (GAPS_BUCKETS_COUNT - 1) |-> << >>]

\* A memory space's gap structures: the ordered tree and the size buckets.
GapReg(tree, buckets) == [tree |-> tree, buckets |-> buckets]

\* MemSpace::gap_insert
gap_insert(reg, gap) ==
  LET bucket_index == get_gap_bucket_index(gap.size)
  IN  GapReg(reg.tree \cup {gap},
             [reg.buckets EXCEPT ![bucket_index] = <<gap>> \o @])

\* List unlink of one node.
Unlink(list, g) == SelectSeq(list, LAMBDA x : x # g)

\* A faulty gap_remove, for C26: the gap leaves the tree and stays linked in
\* its bucket.
gap_remove_tree_only(reg, gap_begin) ==
  GapReg({x \in reg.tree : x.begin # gap_begin}, reg.buckets)

\* MemSpace::gap_remove
gap_remove(reg, gap_begin) ==
  LET g == CHOOSE x \in reg.tree : x.begin = gap_begin
      bucket_index == get_gap_bucket_index(g.size)
  IN  GapReg(reg.tree \ {g},
             [reg.buckets EXCEPT ![bucket_index] = Unlink(@, g)])

\* A faulty scan of a bucket list, for C36: the first gap of the list is
\* taken whatever its size.
BucketFront(bucket, size) ==
  IF bucket = << >> THEN {} ELSE {bucket[1]}

\* The first gap of a bucket list with at least `size` pages.
BucketScan(bucket, size) ==
  LET hits == {k \in 1 .. Len(bucket) : bucket[k].size >= size}
  IN  IF hits = {} THEN {} ELSE {bucket[SetMin(hits)]}

RECURSIVE gap_get_from(_, _, _)
\* The bucket loop of MemSpace::gap_get from bucket i on.
gap_get_from(buckets, size, i) ==
  IF i >= GAPS_BUCKETS_COUNT THEN {}
  ELSE IF buckets[i] = << >> THEN gap_get_from(buckets, size, i + 1)
  ELSE LET found == BucketScan(buckets[i], size)
       IN  IF found # {} THEN found ELSE gap_get_from(buckets, size, i + 1)

\* MemSpace::gap_get
gap_get(buckets, size) == gap_get_from(buckets, size, get_gap_bucket_index(size))

(* --------------------------- MemMapping -------------------------------- *)
\* The machine state the mapping engine works on: every memory space's VMem,
\* the physical reference counter, the USER frames the buddy allocator has
\* handed out, and the content of every frame; `stale` holds the VMem in
\* which a map call was made that no flush has followed yet (none between
\* calls).
World(vm, rc, al, ct) ==
  [vmem |-> vm, rc |-> rc, al |-> al, ct |-> ct, stale |-> {}]

\* MemMapping::new; `vmem` names the memory space whose VMem the mapping
\* points to.
MemMapping(begin, size, flags, vm) ==
  [begin |-> begin, size |-> size, flags |-> flags, vmem |-> vm]

\* MemMapping::contains_ptr
contains_ptr(m, ptr) == ptr >= m.begin /\ ptr < m.begin + m.size

\* MemMapping::get_physical_page
get_physical_page(w, m, offset) ==
  LET phys == translate(w.vmem[m.vmem], m.begin + offset)
  IN  {p \in phys : p # DefaultFrame}

\* MemMapping::is_shared
is_shared(w, m, offset) ==
  \E phys_ptr \in get_physical_page(w, m, offset) : PhysIsShared(w.rc, phys_ptr)

\* MemMapping::is_cow
is_cow(w, m, offset) ==
  is_shared(w, m, offset) /\ ~HasFlag(m.flags, MAPPING_FLAG_SHARED)

\* A faulty get_vmem_flags, for C8: `allocated` is not consulted.
get_vmem_flags_of_any_page(w, m, allocated, offset) ==
  [write |-> HasFlag(m.flags, MAPPING_FLAG_WRITE) /\ ~is_cow(w, m, offset),
   user  |-> HasFlag(m.flags, MAPPING_FLAG_USER)]

\* MemMapping::get_vmem_flags
get_vmem_flags(w, m, allocated, offset) ==
  [write |-> HasFlag(m.flags, MAPPING_FLAG_WRITE) /\ allocated /\ ~is_cow(w, m, offset),
   user  |-> HasFlag(m.flags, MAPPING_FLAG_USER)]

\* VMem::map on the VMem of memory space `v`.
vmem_map(w, v, phys, virt, flags) ==
  [w EXCEPT !.vmem[v][virt] = Entry(phys, flags), !.stale = @ \cup {v}]

\* VMem::flush on the VMem of memory space `v`.
vmem_flush(w, v) == [w EXCEPT !.stale = @ \ {v}]

\* The content read at `virt` while the VMem of memory space `v` is bound.
ReadVirt(w, v, virt) ==
  IF w.vmem[v][virt].present THEN w.ct[w.vmem[v][virt].phys] ELSE "junk"

\* A kernel store of a whole page at `virt` while the VMem of `v` is bound.
WriteVirt(w, v, virt, data) ==
  IF w.vmem[v][virt].present
  THEN [w EXCEPT !.ct[w.vmem[v][virt].phys] = data]
  ELSE w

\* The result of a fallible step: the machine state it leaves and whether it
\* returned Ok.
Res(w, ok) == [w |-> w, ok |-> ok]

\* A faulty MemMapping::unmap, for C29: it does not even flush.
mapping_unmap_without_flush(w, m) == w

\* MemMapping::unmap: only flushes.
mapping_unmap(w, m) == vmem_flush(w, m.vmem)

RECURSIVE map_default_from(_, _, _, _)
\* The loop of MemMapping::map_default from page i on; `failAt` is the page
\* whose vmem.map call fails (m.size: none does).
map_default_from(w, m, i, failAt) ==
  IF i >= m.size THEN Res(vmem_flush(w, m.vmem), TRUE)
  ELSE
    LET nolazy == HasFlag(m.flags, MAPPING_FLAG_NOLAZY)
        flags  == get_vmem_flags(w, m, nolazy, i)
        ptr    == buddy_alloc(w.al)
    IN  IF nolazy /\ ptr = {} THEN Res(mapping_unmap(w, m), FALSE)
        ELSE
          LET phys_ptr == IF nolazy THEN CHOOSE f \in ptr : TRUE ELSE DefaultFrame
              w1 == IF nolazy THEN [w EXCEPT !.al = @ \cup {phys_ptr}] ELSE w
          IN  IF i = failAt THEN Res(mapping_unmap(w1, m), FALSE)
              ELSE map_default_from(vmem_map(w1, m.vmem, phys_ptr, m.begin + i, flags),
                                    m, i + 1, failAt)

\* MemMapping::map_default
map_default(w, m, failAt) == map_default_from(w, m, 0, failAt)

\* The step of MemMapping::map that fails, if any: "early" is a failure
\* before the page is remapped (the Box of the temporary stack, the Box of
\* the COW buffer, or the vmem.map call, after which the new frame is freed)
\* and "stack_switch" a failure of the stack switch.  (A failure of
\* buddy::alloc comes from the allocator's state.)
MapFails == {"none", "early", "stack_switch"}

\* MemMapping::map (fault_in) at page `offset`, called while the VMem of memory
\* space `cur` is bound.
mapping_map(w, m, offset, cur, fail) ==
  LET virt_ptr == m.begin + offset
      cow == is_cow(w, m, offset)
      cow_buffer == IF cow THEN {ReadVirt(w, cur, virt_ptr)} ELSE {}
      source_phys_ptr == IF cow THEN get_physical_page(w, m, offset) ELSE {}
      flags == get_vmem_flags(w, m, TRUE, offset)
      ptr == buddy_alloc(w.al)
      mapped ==
        IF source_phys_ptr # {}
        THEN Res(vmem_map(w, m.vmem, CHOOSE p \in source_phys_ptr : TRUE,
                          virt_ptr, flags), TRUE)
        ELSE IF ptr = {} THEN Res(w, FALSE)
             ELSE LET phys_ptr == CHOOSE f \in ptr : TRUE
                  IN  Res(vmem_map([w EXCEPT !.al = @ \cup {phys_ptr}],
                                   m.vmem, phys_ptr, virt_ptr, flags), TRUE)
      flushed == vmem_flush(mapped.w, m.vmem)
  IN  IF fail = "early" THEN Res(w, FALSE)
      ELSE IF ~mapped.ok THEN mapped
      ELSE IF fail = "stack_switch" THEN Res(flushed, FALSE)
      ELSE Res(WriteVirt(flushed, m.vmem, virt_ptr,
                         IF cow_buffer # {} THEN CHOOSE b \in cow_buffer : TRUE
                         ELSE "zero"), TRUE)

\* A faulty update_vmem, for C10: the default page counts as allocated.
update_vmem_as_allocated(w, m, offset) ==
  LET virt_ptr == m.begin + offset
      phys_ptr_result == translate(w.vmem[m.vmem], virt_ptr)
  IN  IF phys_ptr_result = {} THEN w
      ELSE vmem_flush(vmem_map(w, m.vmem, CHOOSE p \in phys_ptr_result : TRUE,
                               virt_ptr, get_vmem_flags(w, m, TRUE, offset)),
                      m.vmem)

\* MemMapping::update_vmem
update_vmem(w, m, offset) ==
  LET virt_ptr == m.begin + offset
      phys_ptr_result == translate(w.vmem[m.vmem], virt_ptr)
  IN  IF phys_ptr_result = {} THEN w
      ELSE LET phys_ptr == CHOOSE p \in phys_ptr_result : TRUE
               allocated == phys_ptr # DefaultFrame
               flags == get_vmem_flags(w, m, allocated, offset)
           IN  vmem_flush(vmem_map(w, m.vmem, phys_ptr, virt_ptr, flags), m.vmem)

RECURSIVE fork_increments(_, _, _, _)
\* The reference counter loop of MemMapping::fork from page i on; `failAt` is
\* the page whose increment fails (m.size: none does).
fork_increments(w, m, i, failAt) ==
  IF i >= m.size THEN Res(w, TRUE)
  ELSE LET phys == get_physical_page(w, m, i)
       IN  IF phys = {} THEN fork_increments(w, m, i + 1, failAt)
           ELSE IF i = failAt THEN Res(w, FALSE)
           ELSE fork_increments([w EXCEPT !.rc = increment(@, CHOOSE p \in phys : TRUE)],
                                m, i + 1, failAt)

\* The mapping MemMapping::fork inserts into the other memory space's
\* container: the same region and flags, and the same VMem pointer.
fork_new_mapping(m) == MemMapping(m.begin, m.size, m.flags, m.vmem)

(* ----------------------------- MemSpace -------------------------------- *)
\* vmem::x86::PAGE_FAULT_PRESENT, the only bit of the error code consulted.
PAGE_FAULT_PRESENT == 1
\* The bit of the error code that tells a write access from a read access.
PAGE_FAULT_WRITE == 2

VARIABLES
  live,          \* the memory spaces that exist
  gaps,          \* per memory space: gaps (tree) and gaps_buckets
  mappings,      \* per memory space: the mappings tree
  vmem,          \* per memory space: the page table of its VMem
  ref_counter,   \* PHYSICAL_REF_COUNTER: frame -> share count (0: absent)
  allocated,     \* the USER-zone frames handed out by the buddy allocator
  content,       \* the content of every frame
  DEFAULT_PAGE,  \* the static Option holding the default page
  panicked,      \* kernel_panic! (or an unwrap of None) was reached
  calls,         \* the number of calls so far that changed the state
  ooms,          \* the number of those that an allocation made to fail failed
  threads,       \* per thread of control: where it is in get_default_page
  gapcall        \* the last call of a MemGap method made on its own

vars == <<live, gaps, mappings, vmem, ref_counter, allocated, content,
          DEFAULT_PAGE, panicked, calls, ooms, threads, gapcall>>

\* Number of threads of control that call get_default_page.
NumThreads == 3

Threads == 1 .. NumThreads

\* A thread of control that is not inside get_default_page: `ptr` is the
\* local of that name (the frame buddy::alloc returned to the thread), `ret`
\* the frames its calls returned and `gets` the number of its calls.
IdleThread == [pc |-> "idle", ptr |-> {}, ret |-> {}, gets |-> 0]

\* No MemGap method was called on its own.
NoGapCall == [fn |-> "none", gap |-> {}, other |-> {}, off |-> 0, size |-> 0,
              panic |-> FALSE, left |-> {}, right |-> {}, ret |-> {}]

EmptyVMem == [p \in Pages |-> NoEntry]
EmptyGapReg == GapReg({}, EmptyBuckets)

\* The state of the program (all variables but the two counters).
state == <<live, gaps, mappings, vmem, ref_counter, allocated, content,
           DEFAULT_PAGE, panicked>>

\* A call can be made: the kernel has not panicked and the run is not over.
\* (A run is not followed past an empty mapping: a second mapping can then
\* begin at the same address, and what the tree does with equal keys is not
\* among the files.)
CanCall ==
  /\ ~panicked
  /\ calls < MaxCalls
  /\ \A s \in live : \A m \in mappings[s] : m.size > 0

\* A call that fails because an allocation is made to fail can be made.
CanFail(injected) == injected => ooms < MaxOoms

\* Counts the call if it changed the state; `injected` tells that it failed
\* because an allocation was made to fail.
Count(injected) ==
  /\ calls' = IF state' # state THEN calls + 1 ELSE calls
  /\ ooms' = IF injected /\ state' # state THEN ooms + 1 ELSE ooms

\* MemSpace::create_default_gaps
create_default_gaps(reg) ==
  gap_insert(reg, MemGap(ALLOC_BEGIN, PROCESS_END - ALLOC_BEGIN))

\* The state after MemSpace::new() built the first memory space.
Init ==
  /\ live = {1}
  /\ gaps = [s \in SpaceIds |-> IF s = 1 THEN create_default_gaps(EmptyGapReg)
                                ELSE EmptyGapReg]
  /\ mappings = [s \in SpaceIds |-> {}]
  /\ vmem = [s \in SpaceIds |-> EmptyVMem]
  /\ ref_counter = [f \in Frames |-> 0]
  /\ allocated = {}
  /\ content = [f \in Frames |-> "junk"]
  /\ DEFAULT_PAGE = {}
  /\ panicked = FALSE
  /\ calls = 0
  /\ ooms = 0
  /\ threads = [t \in Threads |-> IdleThread]
  /\ gapcall = NoGapCall

TheWorld == World(vmem, ref_counter, allocated, content)

\* Stores a machine state back into the variables.
SetWorld(w) ==
  /\ vmem' = w.vmem
  /\ ref_counter' = w.rc
  /\ allocated' = w.al
  /\ content' = w.ct

NoFail == [at |-> "none", k |-> 0, i |-> 0]

\* The allocation that fails inside MemSpace::map(_, size, _), if any: the
\* insertion of the mapping, the vmem.map call of page i of map_default, or
\* the insertion of the residual gap.
MapSpaceFails(size) ==
  {NoFail, [at |-> "insert", k |-> 0, i |-> 0], [at |-> "gap_insert", k |-> 0, i |-> 0]}
    \cup {[at |-> "map_default", k |-> 0, i |-> i] : i \in 0 .. (size - 1)}

\* What a successful MemSpace::map(None, size, _) does to the gap structures:
\* the residual gap that consume returns, if any, is inserted, and the gap
\* selected is removed.
map_gaps(reg, size) ==
  LET gap == gap_get(reg.buckets, size)
      g == CHOOSE x \in gap : TRUE
      new_gap == consume(g, 0, size)[2]
      inserted == IF new_gap # {}
                  THEN gap_insert(reg, CHOOSE n \in new_gap : TRUE)
                  ELSE reg
  IN  IF gap = {} THEN reg ELSE gap_remove(inserted, g.begin)

\* BinaryTree::remove on the mappings tree: the mapping that begins at `ptr`
\* leaves the tree.
mappings_remove(maps, ptr) == {m \in maps : m.begin # ptr}

\* A faulty MemSpace::map, for C21: a mapping whose map_default failed stays
\* in the mappings tree.
map_result_keeping_mapping(s, hint, size, flags, fail) ==
  LET gap == gap_get(gaps[s].buckets, size)
      same == [ok |-> FALSE, ptr |-> ALLOC_BEGIN, w |-> TheWorld,
               gaps |-> gaps[s], mappings |-> mappings[s], dp |-> DEFAULT_PAGE]
  IN  IF hint # {} \/ gap = {} \/ fail.at = "insert" THEN same
      ELSE LET g == CHOOSE x \in gap : TRUE
               mapping == MemMapping(g.begin, size, flags, s)
               r == map_default(TheWorld, mapping,
                                IF fail.at = "map_default" THEN fail.i ELSE size)
               new_gap == consume(g, 0, size)[2]
               inserted == IF new_gap # {}
                           THEN gap_insert(gaps[s], CHOOSE n \in new_gap : TRUE)
                           ELSE gaps[s]
               with_mapping == mappings[s] \cup {mapping}
           IN  IF ~r.ok
               THEN [same EXCEPT !.w = r.w, !.dp = {DefaultFrame},
                                 !.mappings = with_mapping]
               ELSE IF new_gap # {} /\ fail.at = "gap_insert"
               THEN [same EXCEPT !.w = mapping_unmap(r.w, mapping),
                                 !.dp = {DefaultFrame}]
               ELSE [ok |-> TRUE, ptr |-> g.begin, w |-> r.w,
                     gaps |-> gap_remove(inserted, g.begin),
                     mappings |-> with_mapping, dp |-> {DefaultFrame}]

\* The outcome of MemSpace::map(ptr, size, flags) on memory space s: whether
\* it returned Ok, the pointer returned, and the state left.
map_result(s, hint, size, flags, fail) ==
  LET gap == gap_get(gaps[s].buckets, size)
      same == [ok |-> FALSE, ptr |-> ALLOC_BEGIN, w |-> TheWorld,
               gaps |-> gaps[s], mappings |-> mappings[s], dp |-> DEFAULT_PAGE]
  IN  IF hint # {} \/ gap = {} \/ fail.at = "insert" THEN same
      ELSE LET g == CHOOSE x \in gap : TRUE
               gap_ptr == g.begin
               mapping == MemMapping(gap_ptr, size, flags, s)
               r == map_default(TheWorld, mapping,
                                IF fail.at = "map_default" THEN fail.i ELSE size)
               new_gap == consume(g, 0, size)[2]
               with_mapping == mappings[s] \cup {mapping}
           IN  IF ~r.ok
               THEN [same EXCEPT !.w = r.w, !.dp = {DefaultFrame},
                                 !.mappings = mappings_remove(with_mapping, gap_ptr)]
               ELSE IF new_gap # {} /\ fail.at = "gap_insert"
               THEN [same EXCEPT !.w = mapping_unmap(r.w, mapping),
                                 !.dp = {DefaultFrame},
                                 !.mappings = mappings_remove(with_mapping, gap_ptr)]
               ELSE [ok |-> TRUE, ptr |-> gap_ptr, w |-> r.w,
                     gaps |-> map_gaps(gaps[s], size),
                     mappings |-> with_mapping, dp |-> {DefaultFrame}]

\* MemSpace::map(ptr, size, flags) on memory space s.
Map(s, hint, size, flags, fail) ==
  /\ CanCall
  /\ s \in live
  /\ \E r \in {map_result(s, hint, size, flags, fail)} :
         /\ CanFail(fail.at # "none" /\ ~r.ok)
         /\ SetWorld(r.w)
         /\ DEFAULT_PAGE' = r.dp
         /\ mappings' = [mappings EXCEPT ![s] = r.mappings]
         /\ gaps' = [gaps EXCEPT ![s] = r.gaps]
         /\ UNCHANGED <<live, panicked, threads, gapcall>>
         /\ Count(fail.at # "none" /\ ~r.ok)

\* Whether the build compiles debug_assert! in.
Builds == {"debug_assertions", "release"}

\* The outcome of MemSpace::map(ptr, 0, flags) on memory space s: the value
\* returned, whether MemMapping::new panicked, and the state left.  Without
\* debug assertions the call goes on with an empty mapping: map_default maps
\* no page, and the residual gap equals the consumed gap, so that inserting
\* it and removing a gap that begins at gap_ptr leaves the gaps as they were.
map_zero_result(s, hint, flags, build) ==
  LET gap == gap_get(gaps[s].buckets, 0)
      same == [ret |-> "ENOMEM", panic |-> FALSE, mappings |-> mappings[s],
               dp |-> DEFAULT_PAGE]
  IN  IF hint # {} \/ gap = {} THEN same
      ELSE IF build = "debug_assertions"
      THEN [same EXCEPT !.ret = "none", !.panic = TRUE]
      ELSE LET g == CHOOSE x \in gap : TRUE
           IN  [ret |-> "Ok", panic |-> FALSE,
                mappings |-> mappings[s] \cup {MemMapping(g.begin, 0, flags, s)},
                dp |-> {DefaultFrame}]

\* MemSpace::map(ptr, 0, flags) on memory space s.
MapZero(s, hint, flags, build) ==
  /\ CanCall
  /\ s \in live
  /\ \E r \in {map_zero_result(s, hint, flags, build)} :
         /\ mappings' = [mappings EXCEPT ![s] = r.mappings]
         /\ DEFAULT_PAGE' = r.dp
         /\ panicked' = r.panic
         /\ UNCHANGED <<live, gaps, vmem, ref_counter, allocated, content,
                         threads, gapcall>>
         /\ Count(FALSE)

RECURSIVE SortByBegin(_)
\* In-order traversal of a tree ordered by `begin`.
SortByBegin(S) ==
  IF S = {} THEN << >>
  ELSE LET x == CHOOSE x \in S : \A y \in S : x.begin <= y.begin
       IN  <<x>> \o SortByBegin(S \ {x})

\* A faulty gap loop, for C38: the last gap of the parent is not cloned.
fork_gaps_but_last(reg, gs, k) ==
  IF gs = << >> THEN reg
  ELSE GapReg({gs[j] : j \in k .. (Len(gs) - 1)} \cup reg.tree, reg.buckets)

RECURSIVE fork_gaps(_, _, _)
\* The gap loop of MemSpace::fork: clones gs[k..] into the registry `reg`.
fork_gaps(reg, gs, k) ==
  IF k > Len(gs) THEN reg ELSE fork_gaps(gap_insert(reg, gs[k]), gs, k + 1)

\* The allocation that fails inside MemSpace::fork of a memory space with the
\* mappings ms, if any: the VMem clone, a gap clone or insertion, or, at
\* mapping number k, the reference counter increment of page i, the insertion
\* of the new mapping, or a step of new_mapping.map(i).
ForkFails(ms) ==
  {NoFail, [at |-> "clone", k |-> 0, i |-> 0], [at |-> "gap", k |-> 0, i |-> 0]}
    \cup {[at |-> "insert", k |-> k, i |-> 0] : k \in 1 .. Len(ms)}
    \cup UNION {{[at |-> "incr", k |-> k, i |-> i] : i \in 0 .. (ms[k].size - 1)} :
                 k \in 1 .. Len(ms)}
    \cup UNION {{[at |-> a, k |-> k, i |-> i] :
                   a \in MapFails \ {"none"}, i \in 0 .. (ms[k].size - 1)} :
                 k \in {j \in 1 .. Len(ms) : HasFlag(ms[j].flags, MAPPING_FLAG_NOLAZY)}}

RECURSIVE fork_new_pages(_, _, _, _, _)
\* The page loop MemSpace::fork runs on a new mapping, from page i on.
fork_new_pages(w, new_mapping, i, cur, fail) ==
  IF i >= new_mapping.size THEN Res(w, TRUE)
  ELSE IF ~HasFlag(new_mapping.flags, MAPPING_FLAG_NOLAZY)
       THEN fork_new_pages(update_vmem(w, new_mapping, i), new_mapping, i + 1, cur, fail)
       ELSE LET r == mapping_map(w, new_mapping, i, cur,
                                 IF fail.i = i /\ fail.at \in MapFails
                                 THEN fail.at ELSE "none")
            IN  IF ~r.ok THEN r
                ELSE fork_new_pages(r.w, new_mapping, i + 1, cur, fail)

RECURSIVE fork_mappings(_, _, _, _, _, _)
\* The first mapping loop of MemSpace::fork over ms[k..]; `container` is the
\* mappings tree of the new memory space.
fork_mappings(w, container, ms, k, cur, fail) ==
  IF k > Len(ms) THEN [w |-> w, ok |-> TRUE, container |-> container]
  ELSE
    LET m == ms[k]
        here == fail.k = k
        inc == fork_increments(w, m, 0,
                               IF here /\ fail.at = "incr" THEN fail.i ELSE m.size)
        new_mapping == fork_new_mapping(m)
        pages == fork_new_pages(inc.w, new_mapping, 0, cur, IF here THEN fail ELSE NoFail)
    IN  IF ~inc.ok \/ (here /\ fail.at = "insert")
        THEN [w |-> inc.w, ok |-> FALSE, container |-> container]
        ELSE IF ~pages.ok
        THEN [w |-> pages.w, ok |-> FALSE, container |-> container \cup {new_mapping}]
        ELSE fork_mappings(pages.w, container \cup {new_mapping}, ms, k + 1, cur, fail)

RECURSIVE update_all(_, _, _, _)
\* The second mapping loop of MemSpace::fork: update_vmem on every page of
\* ms[k..], from page i of ms[k] on.
update_all(w, ms, k, i) ==
  IF k > Len(ms) THEN w
  ELSE IF i >= ms[k].size THEN update_all(w, ms, k + 1, 0)
  ELSE update_all(update_vmem(w, ms[k], i), ms, k, i + 1)

\* The outcome of MemSpace::fork on memory space s, the new memory space
\* being c: whether it returned Ok, and the state left.  A new memory space
\* that is not returned is dropped.
fork_result(s, c, fail) ==
  LET same == [ok |-> FALSE, w |-> TheWorld, gaps |-> EmptyGapReg, mappings |-> {}]
      cloned == [TheWorld EXCEPT !.vmem[c] = vmem[s]]
      ms == SortByBegin(mappings[s])
      r == fork_mappings(cloned, {}, ms, 1, s, fail)
  IN  IF fail.at \in {"clone", "gap"} THEN same
      ELSE IF ~r.ok THEN [same EXCEPT !.w = [r.w EXCEPT !.vmem[c] = EmptyVMem]]
      ELSE [ok |-> TRUE, w |-> update_all(r.w, ms, 1, 0),
            gaps |-> fork_gaps(EmptyGapReg, SortByBegin(gaps[s].tree), 1),
            mappings |-> r.container]

\* MemSpace::fork on memory space s; the new memory space is c.
Fork(s, c, fail) ==
  /\ CanCall
  /\ s \in live
  /\ c \notin live
  /\ c = SetMin(SpaceIds \ live)
  /\ \E r \in {fork_result(s, c, fail)} :
         /\ CanFail(fail.at # "none" /\ ~r.ok)
         /\ SetWorld(r.w)
         /\ live' = IF r.ok THEN live \cup {c} ELSE live
         /\ gaps' = [gaps EXCEPT ![c] = r.gaps]
         /\ mappings' = [mappings EXCEPT ![c] = r.mappings]
         /\ DEFAULT_PAGE' = IF mappings[s] # {} /\ fail.at \notin {"clone", "gap"}
                            THEN {DefaultFrame} ELSE DEFAULT_PAGE
         /\ UNCHANGED <<panicked, threads, gapcall>>
         /\ Count(fail.at # "none" /\ ~r.ok)

RECURSIVE drop_mappings(_, _, _)
\* The traversal of Drop for MemSpace: unmap on every mapping of ms[k..].
drop_mappings(w, ms, k) ==
  IF k > Len(ms) THEN w ELSE drop_mappings(mapping_unmap(w, ms[k]), ms, k + 1)

\* The machine state Drop for MemSpace leaves, for memory space s with the
\* mappings `maps`: every mapping is unmapped, then the fields are dropped,
\* the VMem with them.
drop_result(w, s, maps) ==
  [drop_mappings(w, SortByBegin(maps), 1) EXCEPT !.vmem[s] = EmptyVMem]

\* Drop for MemSpace, on memory space s.  A memory space is dropped only when
\* no mapping of another memory space points to its VMem (such a mapping
\* would be left with a dangling pointer).
Drop(s) ==
  /\ CanCall
  /\ s \in live
  /\ \A t \in live \ {s} : \A m \in mappings[t] : m.vmem # s
  /\ SetWorld(drop_result(TheWorld, s, mappings[s]))
  /\ live' = live \ {s}
  /\ gaps' = [gaps EXCEPT ![s] = EmptyGapReg]
  /\ mappings' = [mappings EXCEPT ![s] = {}]
  /\ UNCHANGED <<DEFAULT_PAGE, panicked, threads, gapcall>>
  /\ Count(FALSE)

\* MemSpace::get_mapping_for
get_mapping_for(maps, ptr) == {m \in maps : contains_ptr(m, ptr)}

\* The allocations that fail in the first and in the second call of
\* mapping.map in handle_page_fault; the second call is made only when the
\* first one fails.
FaultFails ==
  {<<"none", "none">>} \cup ((MapFails \ {"none"}) \X MapFails)

\* A faulty handle_page_fault, for C16: the PRESENT bit is not consulted.
fault_result_ignoring_present(s, virt_addr, code, fails) ==
  LET found == get_mapping_for(mappings[s], virt_addr)
      mapping == CHOOSE m \in found : TRUE
      r1 == mapping_map(TheWorld, mapping, virt_addr - mapping.begin, s, fails[1])
  IN  IF found = {} THEN [ret |-> "panic", w |-> TheWorld]
      ELSE IF r1.ok THEN [ret |-> "true", w |-> r1.w]
      ELSE [ret |-> "panic", w |-> r1.w]

\* A faulty handle_page_fault, for C23: after two failed attempts the call
\* gives up and returns false.
fault_result_giving_up(s, virt_addr, code, fails) ==
  LET found == get_mapping_for(mappings[s], virt_addr)
      mapping == CHOOSE m \in found : TRUE
      offset == virt_addr - mapping.begin
      r1 == mapping_map(TheWorld, mapping, offset, s, fails[1])
      r2 == mapping_map(r1.w, mapping, offset, s, fails[2])
  IN  IF (code \div PAGE_FAULT_PRESENT) % 2 = 0 THEN [ret |-> "false", w |-> TheWorld]
      ELSE IF found = {} THEN [ret |-> "panic", w |-> TheWorld]
      ELSE IF r1.ok THEN [ret |-> "true", w |-> r1.w]
      ELSE IF r2.ok THEN [ret |-> "true", w |-> r2.w]
      ELSE [ret |-> "false", w |-> r2.w]

\* The outcome of MemSpace::handle_page_fault(virt_addr, code) on memory space
\* s, whose VMem is bound when the fault is raised: what it returns ("true",
\* "false" or "panic") and the state left.
fault_result(s, virt_addr, code, fails) ==
  LET found == get_mapping_for(mappings[s], virt_addr)
      mapping == CHOOSE m \in found : TRUE
      offset == virt_addr - mapping.begin
      r1 == mapping_map(TheWorld, mapping, offset, s, fails[1])
      r2 == mapping_map(r1.w, mapping, offset, s, fails[2])
  IN  IF (code \div PAGE_FAULT_PRESENT) % 2 = 0 THEN [ret |-> "false", w |-> TheWorld]
      ELSE IF found = {} THEN [ret |-> "panic", w |-> TheWorld]
      ELSE IF r1.ok THEN [ret |-> "true", w |-> r1.w]
      ELSE IF r2.ok THEN [ret |-> "true", w |-> r2.w]
      ELSE [ret |-> "panic", w |-> r2.w]

\* MemSpace::handle_page_fault(virt_addr, code) on memory space s.
HandlePageFault(s, virt_addr, code, fails) ==
  /\ CanCall
  /\ CanFail(fails[1] # "none")
  /\ s \in live
  /\ \E r \in {fault_result(s, virt_addr, code, fails)} :
         /\ SetWorld(r.w)
         /\ panicked' = (r.ret = "panic")
  /\ DEFAULT_PAGE' = IF (code \div PAGE_FAULT_PRESENT) % 2 = 1
                        /\ get_mapping_for(mappings[s], virt_addr) # {}
                     THEN {DefaultFrame} ELSE DEFAULT_PAGE
  /\ UNCHANGED <<live, gaps, mappings, threads, gapcall>>
  /\ Count(fails[1] # "none")

\* A store of the user process of memory space s to a page its VMem maps
\* with the WRITE bit.
UserWrite(s, virt_addr) ==
  /\ CanCall
  /\ s \in live
  /\ vmem[s][virt_addr].present
  /\ vmem[s][virt_addr].write
  /\ content' = [content EXCEPT ![vmem[s][virt_addr].phys] = "data"]
  /\ UNCHANGED <<live, gaps, mappings, vmem, ref_counter, allocated,
                 DEFAULT_PAGE, panicked, threads, gapcall>>
  /\ Count(FALSE)

\* The state of one memory space together with the machine state.
SpaceState(w, g, ms) == [w |-> w, gaps |-> g, mappings |-> ms]

\* The outcome of MemSpace::unmap(ptr, size) on a memory space in the state
\* `ms`: the body of the function is empty, nothing is changed.
unmap_result(ms, ptr, size) == ms

\* MemSpace::unmap(ptr, size) on memory space s.
Unmap(s, ptr, size) ==
  /\ CanCall
  /\ s \in live
  /\ \E r \in {unmap_result(SpaceState(TheWorld, gaps[s], mappings[s]), ptr, size)} :
         /\ SetWorld(r.w)
         /\ gaps' = [gaps EXCEPT ![s] = r.gaps]
         /\ mappings' = [mappings EXCEPT ![s] = r.mappings]
  /\ UNCHANGED <<live, DEFAULT_PAGE, panicked, threads, gapcall>>
  /\ Count(FALSE)

\* The failures of `fails` that the run can still take.
Allowed(fails, none) == IF ooms < MaxOoms THEN fails ELSE {none}

\* map with no pointer given.  When no gap is large enough the call returns
\* before it looks at the flags or attempts an allocation.
DoMap ==
  /\ CanCall
  /\ \E s \in live, size \in 1 .. NumPages :
       IF gap_get(gaps[s].buckets, size) = {}
       THEN Map(s, {}, size, MAPPING_FLAG_USER, NoFail)
       ELSE \E flags \in MapFlagChoices :
              \E fail \in Allowed(MapSpaceFails(size), NoFail) :
                Map(s, {}, size, flags, fail)

\* map with a pointer given.
DoMapAt ==
  /\ CanCall
  /\ \E s \in live, ptr \in Pages :
       Map(s, {ptr}, 1, MAPPING_FLAG_WRITE + MAPPING_FLAG_USER, NoFail)

\* map of no page, without and with a pointer given (with a pointer the call
\* returns before MemMapping::new, whatever the build).
DoMapZero ==
  /\ CanCall
  /\ \E s \in live :
       \/ \E build \in Builds :
            MapZero(s, {}, MAPPING_FLAG_WRITE + MAPPING_FLAG_USER, build)
       \/ \E ptr \in Pages :
            MapZero(s, {ptr}, MAPPING_FLAG_WRITE + MAPPING_FLAG_USER, "release")

DoFork ==
  /\ CanCall
  /\ \E s \in live, c \in SpaceIds \ live :
       \E fail \in Allowed(ForkFails(SortByBegin(mappings[s])), NoFail) :
         Fork(s, c, fail)

\* handle_page_fault with the PRESENT bit set.  Outside the mappings the call
\* panics before it attempts an allocation.
DoHandlePageFault ==
  /\ CanCall
  /\ \E s \in live, virt_addr \in Pages :
       \/ IF get_mapping_for(mappings[s], virt_addr) = {}
          THEN HandlePageFault(s, virt_addr, PAGE_FAULT_PRESENT, <<"none", "none">>)
          ELSE \E fails \in Allowed(FaultFails, <<"none", "none">>) :
                 HandlePageFault(s, virt_addr, PAGE_FAULT_PRESENT, fails)
       \/ HandlePageFault(s, virt_addr, PAGE_FAULT_PRESENT + PAGE_FAULT_WRITE,
                           <<"none", "none">>)

\* The error codes with the PRESENT bit clear.
AbsentCodes == {0, PAGE_FAULT_WRITE}

\* handle_page_fault with the PRESENT bit clear in the error code.
DoHandlePageFaultAbsent ==
  /\ CanCall
  /\ \E s \in live, virt_addr \in Pages, code \in AbsentCodes :
       HandlePageFault(s, virt_addr, code, <<"none", "none">>)

DoUserWrite ==
  /\ CanCall
  /\ \E s \in live, virt_addr \in Pages : UserWrite(s, virt_addr)

\* unmap of the region of a mapping.
DoUnmap ==
  /\ CanCall
  /\ \E s \in live : \E m \in mappings[s] : Unmap(s, m.begin, m.size)

DoDrop ==
  /\ CanCall
  /\ \E s \in live : Drop(s)

Next ==
  \/ DoMap
  \/ DoMapAt
  \/ DoMapZero
  \/ DoFork
  \/ DoHandlePageFault
  \/ DoHandlePageFaultAbsent
  \/ DoUserWrite
  \/ DoUnmap
  \/ DoDrop

Spec == Init /\ [][Next]_vars

(* ------------------- the gap structures on their own -------------------- *)
\* The largest window of the runs that follow the gap structures alone.
MaxWindow == 1024

\* The largest number of pages such a run maps in one call.
MaxCarve == 3

\* The state after MemSpace::new() when the window
\* [ALLOC_BEGIN, PROCESS_END) has `pages` pages; the page tables are left out.
GapsInit ==
  /\ \E pages \in 1 .. MaxWindow :
       gaps = [s \in SpaceIds |->
                 IF s = 1
                 THEN gap_insert(EmptyGapReg, MemGap(ALLOC_BEGIN, pages))
                 ELSE EmptyGapReg]
  /\ live = {1}
  /\ mappings = [s \in SpaceIds |-> {}]
  /\ vmem = [s \in SpaceIds |-> EmptyVMem]
  /\ ref_counter = [f \in Frames |-> 0]
  /\ allocated = {}
  /\ content = [f \in Frames |-> "junk"]
  /\ DEFAULT_PAGE = {}
  /\ panicked = FALSE
  /\ calls = 0
  /\ ooms = 0
  /\ threads = [t \in Threads |-> IdleThread]
  /\ gapcall = NoGapCall

\* A successful MemSpace::map(None, size, _), as far as the gap structures go.
GapsMap(size) ==
  /\ calls < MaxCalls
  /\ gap_get(gaps[1].buckets, size) # {}
  /\ gaps' = [gaps EXCEPT ![1] = map_gaps(gaps[1], size)]
  /\ calls' = calls + 1
  /\ UNCHANGED <<live, mappings, vmem, ref_counter, allocated, content,
                 DEFAULT_PAGE, panicked, ooms, threads, gapcall>>

DoGapsMap == \E size \in 1 .. MaxCarve : GapsMap(size)

GapsNext == DoGapsMap

SpecGaps == GapsInit /\ [][GapsNext]_vars

(* ------------------------------ claims --------------------------------- *)
\* The virtual pages of a mapping.
MappingPages(m) == m.begin .. (m.begin + m.size - 1)

\* The (memory space, virtual page) pairs whose VMem translation is `frame`.
Translators(vm, frame) ==
  {sp \in live \X Pages : vm[sp[1]][sp[2]].present /\ vm[sp[1]][sp[2]].phys = frame}

\* The page is translated to the default page in the VMem of memory space s.
DefaultMapped(vm, s, p) == vm[s][p].present /\ vm[s][p].phys = DefaultFrame

\* The page is translated to a frame other than the default page.
FrameMapped(vm, s, p) == vm[s][p].present /\ vm[s][p].phys # DefaultFrame

\* The gaps and the mappings of memory space s, as tagged intervals.
Regions(s) ==
  {<<"gap", g.begin, g.size>> : g \in gaps[s].tree}
    \cup {<<"mapping", m.begin, m.size, m.flags, m.vmem>> : m \in mappings[s]}

\* C1: in every live memory space, after new and after every map or fork
\* call, failed calls included, the intervals of the gaps and of the mappings
\* are pairwise disjoint and their union is [ALLOC_BEGIN, PROCESS_END): every
\* region is an interval of the window and every page of the window lies in
\* exactly one region.
C1_Tiling ==
  \A s \in live :
    /\ \A r \in Regions(s) :
         r[3] >= 0 /\ r[2] >= ALLOC_BEGIN /\ r[2] + r[3] <= PROCESS_END
    /\ \A p \in Pages :
         Cardinality({r \in Regions(s) : r[2] <= p /\ p < r[2] + r[3]}) = 1

\* C1 witness: a forked memory space and a memory space that holds a mapping
\* next to a residual gap, after a call that failed.
C1_Witness ==
  /\ Cardinality(live) >= 2
  /\ ooms >= 1
  /\ \E s \in live : mappings[s] # {} /\ gaps[s].tree # {}

\* C2: for every frame other than the default page, the share count equals
\* the number of (memory space, virtual page) pairs translated to the frame.
C2_RefcountSound ==
  \A f \in UserFrames : ref_counter[f] = Cardinality(Translators(vmem, f))

\* C3: for every page of a mapping with WRITE that is translated to a frame
\* (other than the default page), the MMU write bit is set iff the frame is
\* not shared or the mapping has SHARED.
C3_CowWritable ==
  \A s \in live : \A m \in mappings[s] : \A p \in MappingPages(m) :
    (HasFlag(m.flags, MAPPING_FLAG_WRITE) /\ FrameMapped(vmem, s, p))
      => (vmem[s][p].write <=>
            (~PhysIsShared(ref_counter, vmem[s][p].phys)
               \/ HasFlag(m.flags, MAPPING_FLAG_SHARED)))

\* C4: every page inside a mapping is translated to the default page or to a
\* frame whose share count is at least 1, and no page outside all mappings
\* is translated.
C4_VMemConsistent ==
  \A s \in live : \A p \in Pages :
    IF \E m \in mappings[s] : contains_ptr(m, p)
    THEN vmem[s][p].present
         /\ (vmem[s][p].phys = DefaultFrame \/ ref_counter[vmem[s][p].phys] >= 1)
    ELSE ~vmem[s][p].present

\* The step is a successful fork of memory space s into the new memory space c
\* (a fork succeeds only when no allocation it attempts is made to fail).
ForkOk(s, c) ==
  /\ c \in live'
  /\ Fork(s, c, NoFail)

\* C5: after a successful fork, every page of a mapping without SHARED that
\* was translated to a non-default frame in the parent is translated to that
\* frame in parent and child, the frame's share count is one more than before
\* (2 for a frame only that page was translated to), and the page's MMU write
\* bit is off in both.
C5_ForkSharesFrames ==
  [][\A s \in live : \A c \in SpaceIds \ live :
       ForkOk(s, c) =>
         \A m \in mappings[s] : \A p \in MappingPages(m) :
           (~HasFlag(m.flags, MAPPING_FLAG_SHARED) /\ FrameMapped(vmem, s, p)) =>
             LET f == vmem[s][p].phys
             IN  /\ FrameMapped(vmem', s, p) /\ vmem'[s][p].phys = f
                 /\ FrameMapped(vmem', c, p) /\ vmem'[c][p].phys = f
                 /\ ref_counter'[f] = ref_counter[f] + 1
                 /\ Cardinality(Translators(vmem, f)) = 1 => ref_counter'[f] = 2
                 /\ ~vmem'[s][p].write
                 /\ ~vmem'[c][p].write]_vars

\* The step is handle_page_fault(virt_addr, PAGE_FAULT_PRESENT) on memory
\* space s with no allocation made to fail.
FaultStep(s, virt_addr) ==
  HandlePageFault(s, virt_addr, PAGE_FAULT_PRESENT, <<"none", "none">>)

\* What that call returns.
FaultRet(s, virt_addr) ==
  fault_result(s, virt_addr, PAGE_FAULT_PRESENT, <<"none", "none">>).ret

\* C6: when handle_page_fault resolves a fault on a page of a mapping without
\* SHARED whose frame has a share count of at least 2, the page is remapped
\* to a newly allocated frame with share count 1 and the old frame's content,
\* the old frame's share count decreases by one, and the other memory
\* spaces' translations of the page are unchanged.
C6_CowCopies ==
  [][\A s \in live : \A m \in mappings[s] : \A p \in MappingPages(m) :
       (/\ ~HasFlag(m.flags, MAPPING_FLAG_SHARED)
        /\ FrameMapped(vmem, s, p)
        /\ ref_counter[vmem[s][p].phys] >= 2
        /\ FaultStep(s, p)
        /\ FaultRet(s, p) = "true") =>
         LET old == vmem[s][p].phys
             new == vmem'[s][p].phys
         IN  /\ FrameMapped(vmem', s, p)
             /\ new \notin allocated /\ new \in allocated'
             /\ ref_counter'[new] = 1
             /\ content'[new] = content[old]
             /\ ref_counter'[old] = ref_counter[old] - 1
             /\ \A t \in live \ {s} : vmem'[t][p] = vmem[t][p]]_vars

\* C7: handle_page_fault with PRESENT on a default-mapped page of a mapping
\* with WRITE, when the allocations succeed, returns true and leaves the page
\* translated to a freshly allocated USER-zone frame, not the default page,
\* whose share count is 1 and whose content is zero.
C7_FaultInZeroPage ==
  [][\A s \in live : \A m \in mappings[s] : \A p \in MappingPages(m) :
       (/\ HasFlag(m.flags, MAPPING_FLAG_WRITE)
        /\ DefaultMapped(vmem, s, p)
        /\ buddy_alloc(allocated) # {}
        /\ FaultStep(s, p)) =>
         /\ FaultRet(s, p) = "true"
         /\ FrameMapped(vmem', s, p)
         /\ vmem'[s][p].phys \in UserFrames \ allocated
         /\ vmem'[s][p].phys \in allocated'
         /\ ref_counter'[vmem'[s][p].phys] = 1
         /\ content'[vmem'[s][p].phys] = "zero"]_vars

\* The step is a successful map(None, size, flags) on memory space s (a map
\* succeeds only when no allocation it attempts is made to fail).
MapOk(s, size, flags) ==
  /\ live' = live
  /\ map_result(s, {}, size, flags, NoFail).ok
  /\ Map(s, {}, size, flags, NoFail)

\* C8: a successful map(None, size, flags) with NOLAZY clear leaves every
\* page of the new mapping translated to the default page with the MMU write
\* bit off, also when flags has WRITE, and allocates no USER-zone frame.
C8_LazyMapDefault ==
  [][mappings' # mappings =>
     \A s \in live : \A m \in mappings'[s] \ mappings[s] :
       (/\ ~HasFlag(m.flags, MAPPING_FLAG_NOLAZY)
        /\ MapOk(s, m.size, m.flags)) =>
         LET ptr == map_result(s, {}, m.size, m.flags, NoFail).ptr
         IN  /\ \A p \in ptr .. (ptr + m.size - 1) :
                  DefaultMapped(vmem', s, p) /\ ~vmem'[s][p].write
             /\ allocated' = allocated]_vars

\* C8 witness: the first call was a successful map with WRITE and without
\* NOLAZY, of more than one page.
C8_Witness ==
  /\ calls = 1
  /\ \E m \in mappings[1] :
       /\ HasFlag(m.flags, MAPPING_FLAG_WRITE)
       /\ ~HasFlag(m.flags, MAPPING_FLAG_NOLAZY)
       /\ m.size >= 2
       /\ \A p \in MappingPages(m) : DefaultMapped(vmem, 1, p) /\ ~vmem[1][p].write

\* C9: for a forked mapping with WRITE and SHARED, resolving the fault of a
\* write to one of its pages, in the parent or in the child, allocates no new
\* frame, and afterwards both memory spaces translate the page to the same
\* frame (so both see the written data).
C9_SharedNoCow ==
  [][\A s \in live : \A t \in live \ {s} : \A m \in mappings[s] \cap mappings[t] :
       \A p \in MappingPages(m) :
         (/\ HasFlag(m.flags, MAPPING_FLAG_WRITE)
          /\ HasFlag(m.flags, MAPPING_FLAG_SHARED)
          /\ FaultStep(s, p)) =>
           /\ allocated' = allocated
           /\ vmem'[s][p].present /\ vmem'[t][p].present
           /\ vmem'[s][p].phys = vmem'[t][p].phys]_vars

\* C10: after a successful fork, every page that was default-mapped in the
\* parent is translated to the default page with the write bit off in parent
\* and child, and fork allocates no USER-zone frame for such pages: no frame
\* when every translated page of the parent was default-mapped.
C10_ForkKeepsDefault ==
  [][\A s \in live : \A c \in SpaceIds \ live :
       ForkOk(s, c) =>
         /\ \A p \in Pages :
              DefaultMapped(vmem, s, p) =>
                /\ DefaultMapped(vmem', s, p) /\ ~vmem'[s][p].write
                /\ DefaultMapped(vmem', c, p) /\ ~vmem'[c][p].write
         /\ (\A p \in Pages : vmem[s][p].present => DefaultMapped(vmem, s, p))
              => allocated' = allocated]_vars

\* C10 witness: a map of two pages, a fault on one of them and a fork: the
\* other page is default-mapped, write bit off, in parent and child.
C10_Witness ==
  /\ calls = 3
  /\ live = {1, 2}
  /\ \E m \in mappings[1] \cap mappings[2] : \E p \in MappingPages(m) : \E q \in MappingPages(m) :
       /\ HasFlag(m.flags, MAPPING_FLAG_WRITE)
       /\ FrameMapped(vmem, 1, q)
       /\ DefaultMapped(vmem, 1, p) /\ ~vmem[1][p].write
       /\ DefaultMapped(vmem, 2, p) /\ ~vmem[2][p].write

\* C11: after a successful fork every mapping of the child designates the
\* child's own VMem, and resolving a fault on a page of a mapping of a memory
\* space (fault_in, with the update of its protection bits) changes no
\* translation and no protection bit in the VMem of any other memory space.
C11_ChildOwnVMem ==
  [][/\ \A s \in live : \A c \in SpaceIds \ live :
          ForkOk(s, c) => \A m \in mappings'[c] : m.vmem = c
     /\ \A s \in live : \A m \in mappings[s] : \A p \in MappingPages(m) :
          FaultStep(s, p) => \A t \in live \ {s} : vmem'[t] = vmem[t]]_vars

\* C12: a successful map(None, size, flags) followed by unmap of the returned
\* pointer and size leaves the memory space as it was before the map: the same
\* set of gap intervals, no mapping overlapping the range, no page of the
\* range translated, and the frames the map allocated back in the allocator.
C12_MapUnmapRoundTrip ==
  \A s \in live : \A size \in 1 .. NumPages : \A flags \in MapFlagChoices :
    LET r == map_result(s, {}, size, flags, NoFail)
        u == unmap_result(SpaceState(r.w, r.gaps, r.mappings), r.ptr, size)
        range == r.ptr .. (r.ptr + size - 1)
    IN  r.ok =>
          /\ u.gaps.tree = gaps[s].tree
          /\ u.mappings = mappings[s]
          /\ \A m \in u.mappings : MappingPages(m) \cap range = {}
          /\ \A p \in range : ~u.w.vmem[s][p].present
          /\ u.w.al = allocated

\* C13: a successful fork followed by the drop of the child leaves the share
\* count of every frame as it was before the fork, and the content read at
\* every page of the parent as it was before the fork.
C13_ForkDropRestores ==
  \A s \in live : \A c \in SpaceIds \ live :
    LET r == fork_result(s, c, NoFail)
        d == drop_result(r.w, c, r.mappings)
    IN  (c = SetMin(SpaceIds \ live) /\ r.ok) =>
          /\ d.rc = ref_counter
          /\ \A p \in Pages : ReadVirt(d, s, p) = ReadVirt(TheWorld, s, p)

\* C14: handle_page_fault with PRESENT on an address that no mapping of the
\* memory space contains returns false, does not panic, and changes nothing.
C14_FaultOutsideMappings ==
  [][\A s \in live : \A p \in Pages :
       (get_mapping_for(mappings[s], p) = {} /\ FaultStep(s, p)) =>
         /\ FaultRet(s, p) = "false"
         /\ ~panicked'
         /\ state' = state]_vars

\* The step is handle_page_fault for a write access with PRESENT at virt_addr
\* on memory space s, with no allocation made to fail.
WriteFaultStep(s, virt_addr) ==
  HandlePageFault(s, virt_addr, PAGE_FAULT_PRESENT + PAGE_FAULT_WRITE,
                  <<"none", "none">>)

\* C15: handle_page_fault for a write fault with PRESENT on a page of a
\* mapping without WRITE returns false, allocates no frame and leaves the
\* translation of the page as it was.
C15_WriteFaultReadOnly ==
  [][\A s \in live : \A m \in mappings[s] : \A p \in MappingPages(m) :
       (~HasFlag(m.flags, MAPPING_FLAG_WRITE) /\ WriteFaultStep(s, p)) =>
         /\ fault_result(s, p, PAGE_FAULT_PRESENT + PAGE_FAULT_WRITE,
                         <<"none", "none">>).ret = "false"
         /\ allocated' = allocated
         /\ vmem'[s][p] = vmem[s][p]]_vars

\* C16: for every address and every error code with the PRESENT bit clear,
\* handle_page_fault returns false and the call changes nothing: no step of
\* it leads to a different state (no frame allocated, no translation, share
\* count, gap or mapping changed, no panic).
C16_FaultNotPresent ==
  \A s \in live : \A p \in Pages : \A code \in AbsentCodes :
    /\ fault_result(s, p, code, <<"none", "none">>).ret = "false"
    /\ fault_result(s, p, code, <<"none", "none">>).w = TheWorld
    /\ ~ENABLED (HandlePageFault(s, p, code, <<"none", "none">>) /\ state' # state)

\* C16 witness: the call can be made on a default-mapped page of a mapping
\* with WRITE while a USER frame is free, where a fault with PRESENT would
\* allocate, and on a page that no mapping contains, where it would panic.
C16_Witness ==
  /\ CanCall
  /\ buddy_alloc(allocated) # {}
  /\ \E s \in live :
       /\ \E m \in mappings[s] : \E p \in MappingPages(m) :
            HasFlag(m.flags, MAPPING_FLAG_WRITE) /\ DefaultMapped(vmem, s, p)
       /\ \E p \in Pages : get_mapping_for(mappings[s], p) = {}


\* C17: MemMapping::map (fault_in) on a page that its memory space owns alone
\* (translated to a frame other than the default page whose share count is 1)
\* changes nothing: the translation, the content of the frames, the share
\* counts and the set of allocated frames are as before.
C17_OwnedExclusiveNoOp ==
  \A s \in live : \A m \in mappings[s] : \A offset \in 0 .. (m.size - 1) :
    LET phys == get_physical_page(TheWorld, m, offset)
    IN  (phys # {} /\ \A f \in phys : ref_counter[f] = 1)
          => mapping_map(TheWorld, m, offset, s, "none").w = TheWorld

\* C18: map called with size = 0, with or without a pointer, reports an
\* invalid-argument error and changes no state of the memory space: it does not
\* panic, and the gaps, the mappings and the VMem are as before (MapZero leaves
\* the gaps and the VMem alone whatever the outcome).
C18_MapZeroInvalid ==
  \A s \in live, build \in Builds :
    \A hint \in {{}} \cup {{ptr} : ptr \in Pages} :
      LET r == map_zero_result(s, hint, MAPPING_FLAG_WRITE + MAPPING_FLAG_USER,
                               build)
      IN  CanCall => /\ r.ret = "EINVAL"
                     /\ ~r.panic
                     /\ r.mappings = mappings[s]

\* C19: if fork returns an error, all share counts and the translations and
\* protection bits of the parent's VMem equal their values before the call
\* (so do the parent's gaps and mappings: Fork writes those of the new memory
\* space only).
C19_ForkErrorRollsBack ==
  \A s \in live : \A c \in {n \in SpaceIds \ live : n = SetMin(SpaceIds \ live)} :
    \A fail \in ForkFails(SortByBegin(mappings[s])) :
      LET r == fork_result(s, c, fail)
      IN  (CanCall /\ ~r.ok) => /\ r.w.rc = ref_counter
                                /\ r.w.vmem[s] = vmem[s]

\* C20: if map_default fails at some page of a new mapping (a vmem.map call
\* that fails, or no frame left for a NOLAZY page), then on return no page of
\* the mapping is translated, the frames allocated during the call are back in
\* the allocator and the share counts are as before the call.
C20_MapDefaultRollsBack ==
  \A s \in live : \A size \in 1 .. NumPages : \A flags \in MapFlagChoices :
    \A g \in gap_get(gaps[s].buckets, size) : \A failAt \in 0 .. size :
      LET mapping == MemMapping(g.begin, size, flags, s)
          r == map_default(TheWorld, mapping, failAt)
      IN  (CanCall /\ ~r.ok)
            => /\ \A p \in MappingPages(mapping) : ~r.w.vmem[s][p].present
               /\ r.w.al = allocated
               /\ r.w.rc = ref_counter

\* C21: if map returns an error (a pointer was given, no gap is large enough,
\* or the insertion of the mapping, map_default or the insertion of the
\* residual gap fails), the gaps, in the ordered tree and in the buckets, and
\* the mappings are exactly as before the call.
C21_MapErrorKeepsIndices ==
  CanCall =>
    \A s \in live : \A size \in 1 .. NumPages :
      /\ \A ptr \in Pages :
           \A r \in {map_result(s, {ptr}, size,
                                MAPPING_FLAG_WRITE + MAPPING_FLAG_USER, NoFail)} :
             ~r.ok /\ r.gaps = gaps[s] /\ r.mappings = mappings[s]
      /\ IF gap_get(gaps[s].buckets, size) = {}
         THEN \A r \in {map_result(s, {}, size, MAPPING_FLAG_USER, NoFail)} :
                ~r.ok /\ r.gaps = gaps[s] /\ r.mappings = mappings[s]
         ELSE \A flags \in MapFlagChoices : \A fail \in MapSpaceFails(size) :
                \A r \in {map_result(s, {}, size, flags, fail)} :
                  ~r.ok => r.gaps = gaps[s] /\ r.mappings = mappings[s]

\* C21 witness: a map call failed after it had allocated a frame for a NOLAZY
\* mapping, and a map call succeeded beside it.
C21_Witness ==
  \E s \in live :
    /\ ooms = 1 /\ calls = 2
    /\ Cardinality(mappings[s]) = 1
    /\ gaps[s].tree # {}
    /\ \E f \in allocated : Translators(vmem, f) = {}

\* C22: if MemMapping::map (fault_in) returns an error at any of its failure
\* points, the translation of the page is the one it had before the call and
\* no frame the call allocated is still allocated.
C22_FaultInErrorKeepsPage ==
  \A s \in live : \A m \in mappings[s] : \A offset \in 0 .. (m.size - 1) :
    \A fail \in MapFails :
      LET r == mapping_map(TheWorld, m, offset, s, fail)
      IN  (CanCall /\ ~r.ok)
            => /\ r.w.vmem[m.vmem][m.begin + offset] = vmem[m.vmem][m.begin + offset]
               /\ r.w.al = allocated

\* C23: handle_page_fault with PRESENT set on an address inside a mapping
\* calls MemMapping::map at most twice: it returns true, with the state the
\* successful attempt left, if the first or the second attempt succeeds; if
\* both fail it panics, and it never returns false.
C23_FaultRetriesOnce ==
  CanCall =>
    \A s \in live : \A m \in mappings[s] : \A virt_addr \in MappingPages(m) :
      \A fails \in MapFails \X MapFails :
        \A r \in {fault_result(s, virt_addr, PAGE_FAULT_PRESENT, fails)} :
          \A first \in {mapping_map(TheWorld, m, virt_addr - m.begin, s, fails[1])} :
            IF first.ok THEN r.ret = "true" /\ r.w = first.w
            ELSE \A second \in {mapping_map(first.w, m, virt_addr - m.begin, s,
                                            fails[2])} :
                   /\ r.ret = IF second.ok THEN "true" ELSE "panic"
                   /\ r.w = second.w

\* C23 witness: the kernel panicked in a memory space in which every page
\* lies in a mapping (so that the fault was inside a mapping and neither map
\* attempt succeeded).
C23_Witness ==
  /\ panicked
  /\ \A s \in live : \A p \in Pages : get_mapping_for(mappings[s], p) # {}

\* The number of links of gap g in the buckets.
Links(buckets, g) ==
  Cardinality({ik \in UNION {{<<i, k>> : k \in 1 .. Len(buckets[i])} :
                               i \in DOMAIN buckets} :
                 buckets[ik[1]][ik[2]] = g})

\* C24: a successful map(None, size, flags) that selects gap g returns g.begin
\* and creates a mapping of `size` pages there; if g.size = size the gap
\* leaves the tree and the buckets and no residual gap is inserted; otherwise
\* g is replaced, in both, by exactly one residual gap of g.size - size pages
\* that begins `size` pages after g.begin.
C24_MapConsumesGap ==
  CanCall =>
    \A s \in live : \A size \in 1 .. NumPages : \A flags \in MapFlagChoices :
      \A g \in gap_get(gaps[s].buckets, size) :
        \A r \in {map_result(s, {}, size, flags, NoFail)} :
          LET residual == IF g.size = size THEN {}
                          ELSE {MemGap(g.begin + size, g.size - size)}
          IN  r.ok
                => /\ r.ptr = g.begin
                   /\ r.mappings =
                        mappings[s] \cup {MemMapping(g.begin, size, flags, s)}
                   /\ r.gaps.tree = (gaps[s].tree \ {g}) \cup residual
                   /\ Links(r.gaps.buckets, g) = 0
                   /\ \A n \in residual : Links(r.gaps.buckets, n) = 1
                   /\ \A o \in gaps[s].tree \ {g} :
                        Links(r.gaps.buckets, o) = Links(gaps[s].buckets, o)

\* C24 witness: a memory space whose window a map call took whole (no gap is
\* left) and a memory space in which a map call left a residual gap behind
\* the new mapping.
C24_Witness ==
  /\ \E s \in live : mappings[s] # {} /\ gaps[s].tree = {}
  /\ \E s \in live : \E m \in mappings[s] : \E g \in gaps[s].tree :
       g.begin = m.begin + m.size

\* The buckets of `buckets` that link at least one gap.
Occupied(buckets) == {i \in DOMAIN buckets : buckets[i] # << >>}

\* C25: from a memory space whose only gap has 1024 pages, map(None, 3, flags)
\* leaves exactly one gap, of 1021 pages, linked in bucket 9 (the floor of
\* log2(1021)), and the bucket that held the gap of 1024 pages links no gap
\* any more.
C25_ResidualBucket ==
  [][(gaps[1].tree = {MemGap(ALLOC_BEGIN, 1024)} /\ GapsMap(3))
       => /\ gaps'[1].tree = {MemGap(ALLOC_BEGIN + 3, 1021)}
          /\ Occupied(gaps'[1].buckets) = {9}
          /\ gaps'[1].buckets[9] = <<MemGap(ALLOC_BEGIN + 3, 1021)>>]_vars

\* C26: after every gap_insert, gap_remove, map and fork, a gap is linked in
\* the bucket of index min(floor(log2(size)), GAPS_BUCKETS_COUNT - 1) if and
\* only if it is in the ordered gap tree, and it is linked in no other bucket
\* (and once only).
C26_BucketConsistency ==
  \A s \in live :
    /\ \A g \in gaps[s].tree :
         /\ Links(gaps[s].buckets, g) = 1
         /\ \E k \in 1 .. Len(gaps[s].buckets[get_gap_bucket_index(g.size)]) :
              gaps[s].buckets[get_gap_bucket_index(g.size)][k] = g
    /\ \A i \in DOMAIN gaps[s].buckets :
         \A k \in 1 .. Len(gaps[s].buckets[i]) :
           gaps[s].buckets[i][k] \in gaps[s].tree

\* C26 witness: after a fork and a map, every memory space has a gap and one
\* of them a residual gap, linked in the bucket of its size.
C26_Witness ==
  /\ Cardinality(live) >= 2
  /\ \A s \in live : gaps[s].tree # {}
  /\ \E s \in live : \E g \in gaps[s].tree :
       /\ g.begin > ALLOC_BEGIN
       /\ Links(gaps[s].buckets, g) = 1

\* C27: whenever handle_page_fault returns true for a page of a mapping that
\* has WRITE, the write bit of the page is set in the VMem of the faulting
\* memory space on return, so that the write that is retried does not fault
\* again.
C27_ResolvedFaultWritable ==
  \A s \in live : \A m \in mappings[s] : \A virt_addr \in MappingPages(m) :
    LET r == fault_result(s, virt_addr, PAGE_FAULT_PRESENT + PAGE_FAULT_WRITE,
                          <<"none", "none">>)
    IN  (CanCall /\ HasFlag(m.flags, MAPPING_FLAG_WRITE) /\ r.ret = "true")
          => /\ r.w.vmem[s][virt_addr].present
             /\ r.w.vmem[s][virt_addr].write

\* The page virt_addr of memory space s awaits copy-on-write on frame f: it
\* lies in a mapping with WRITE and without SHARED that translates it to f,
\* f is in the reference counter, and another page translates to f as well.
AwaitsCow(s, virt_addr, f) ==
  \E m \in get_mapping_for(mappings[s], virt_addr) :
    /\ HasFlag(m.flags, MAPPING_FLAG_WRITE)
    /\ ~HasFlag(m.flags, MAPPING_FLAG_SHARED)
    /\ get_physical_page(TheWorld, m, virt_addr - m.begin) = {f}
    /\ ref_counter[f] >= 1
    /\ Cardinality(Translators(vmem, f)) >= 2

\* C28: when MemMapping::map resolves a copy-on-write page, the new frame is
\* in the reference counter before the page leaves the old frame and the old
\* frame leaves the counter only after the page is on the new one, so that no
\* page fault of another memory space finds a share count of zero (a frame
\* absent from the counter) for a frame some page translates to.  The state
\* in which the call returns is one of the states such a fault can find:
\* there, the old frame and the frame the call allocated are in the counter
\* if a page translates to them.
C28_CowCountOrder ==
  [][\A s \in live : \A virt_addr \in Pages : \A old \in UserFrames :
       (AwaitsCow(s, virt_addr, old) /\ WriteFaultStep(s, virt_addr))
         => \A f \in {old} \cup (allocated' \ allocated) :
              Translators(vmem', f) # {} => ref_counter'[f] >= 1]_vars

\* C29: in map_default, MemMapping::map and update_vmem every successful
\* VMem map call is followed by a VMem flush before the operation returns,
\* whether it returns Ok or an error: no VMem is left with a map call that no
\* flush has followed.
C29_FlushAfterMap ==
  CanCall =>
    \A s \in live :
      /\ \A size \in 1 .. NumPages : \A flags \in MapFlagChoices :
           \A g \in gap_get(gaps[s].buckets, size) : \A failAt \in 0 .. size :
             map_default(TheWorld, MemMapping(g.begin, size, flags, s),
                         failAt).w.stale = {}
      /\ \A m \in mappings[s] : \A offset \in 0 .. (m.size - 1) :
           /\ \A fail \in MapFails :
                mapping_map(TheWorld, m, offset, s, fail).w.stale = {}
           /\ update_vmem(TheWorld, m, offset).stale = {}

\* C29 witness: a NOLAZY mapping holds a frame (map_default), a page of a
\* lazy mapping was faulted in (MemMapping::map), a memory space was forked
\* (update_vmem), and a call returned an error.
C29_Witness ==
  /\ Cardinality(live) >= 2
  /\ ooms >= 1
  /\ \E s \in live : \E m \in mappings[s] : \E p \in MappingPages(m) :
       FrameMapped(vmem, m.vmem, p)

\* C30: right after a successful fork, for every page of every mapping, the
\* mappings with NOLAZY included, the VMem of the parent and of the child
\* translate the page to the same frame (or both to the default page), the
\* parent's translation is the one it had before the fork, and the fork has
\* allocated no USER frame.
C30_ForkAllocatesNothing ==
  [][\A s \in live : \A c \in SpaceIds \ live :
       ForkOk(s, c) =>
         /\ allocated' = allocated
         /\ \A m \in mappings[s] : \A p \in MappingPages(m) :
              /\ translate(vmem'[s], p) = translate(vmem[s], p)
              /\ translate(vmem'[c], p) = translate(vmem'[s], p)]_vars

RECURSIVE fault_in_from(_, _, _, _)
\* MemMapping::map (fault_in) called on page i and on every later page of
\* mapping m, with no allocation made to fail, while the VMem of memory
\* space `cur` is bound; a call that fails ends the loop.
fault_in_from(w, m, i, cur) ==
  IF i >= m.size THEN Res(w, TRUE)
  ELSE LET r == mapping_map(w, m, i, cur, "none")
       IN  IF r.ok THEN fault_in_from(r.w, m, i + 1, cur) ELSE r

\* C31: map(None, size, flags) with NOLAZY leaves every page of the new
\* mapping in the state in which the same call without NOLAZY followed by
\* fault_in on every page leaves it: a translation to a frame that is not
\* the default page, the same share count of the frame, the same write bit,
\* and a page that reads as zeroes.
C31_NolazyAsFaultIn ==
  CanCall =>
    \A s \in live : \A size \in 1 .. NumPages :
      \A eager \in {map_result(s, {}, size,
                               MAPPING_FLAG_WRITE + MAPPING_FLAG_USER
                                 + MAPPING_FLAG_NOLAZY, NoFail)} :
        \A lazy \in {map_result(s, {}, size,
                                MAPPING_FLAG_WRITE + MAPPING_FLAG_USER, NoFail)} :
          (eager.ok /\ lazy.ok)
            => \A m \in {MemMapping(lazy.ptr, size,
                                    MAPPING_FLAG_WRITE + MAPPING_FLAG_USER, s)} :
                 \A faulted \in {fault_in_from(lazy.w, m, 0, s)} :
                   faulted.ok
                     => \A p \in MappingPages(m) :
                          /\ FrameMapped(eager.w.vmem, s, p)
                          /\ FrameMapped(faulted.w.vmem, s, p)
                          /\ eager.w.rc[eager.w.vmem[s][p].phys]
                               = faulted.w.rc[faulted.w.vmem[s][p].phys]
                          /\ eager.w.vmem[s][p].write = faulted.w.vmem[s][p].write
                          /\ ReadVirt(eager.w, s, p) = "zero"
                          /\ ReadVirt(faulted.w, s, p) = "zero"

\* The (memory space, virtual page) pairs through which frame f can be
\* written: the page lies in a mapping of the live memory space, whose VMem
\* translates it to f with the write bit set.
WritableThrough(f) ==
  {sp \in live \X Pages :
     /\ get_mapping_for(mappings[sp[1]], sp[2]) # {}
     /\ vmem[sp[1]][sp[2]].present
     /\ vmem[sp[1]][sp[2]].phys = f
     /\ vmem[sp[1]][sp[2]].write}

\* C32: in every reachable state, a frame that can be written through two
\* different (memory space, virtual page) pairs is reached, in both, through
\* a mapping with SHARED: a write made through a mapping without SHARED is
\* not visible through another page or in another memory space.
C32_WritableFrameNotShared ==
  \A f \in Frames :
    \A a \in WritableThrough(f) : \A b \in WritableThrough(f) \ {a} :
      \A sp \in {a, b} :
        \A m \in get_mapping_for(mappings[sp[1]], sp[2]) :
          HasFlag(m.flags, MAPPING_FLAG_SHARED)

\* The content a read of page p of memory space s returns in the machine
\* state w: zeroes from the default page, the content of the frame otherwise.
Readable(w, s, p) ==
  IF DefaultMapped(w.vmem, s, p) THEN "zero" ELSE ReadVirt(w, s, p)

\* C33: for every page of every mapping, when handle_page_fault returns true
\* the content readable at the page is the content that was readable before
\* the call (zeroes for a page on the default page): resolving a fault
\* discards no data, whether the page was on the default page, on a frame of
\* its own or on a shared frame.
C33_FaultKeepsContent ==
  CanCall =>
    \A s \in live : \A m \in mappings[s] : \A virt_addr \in MappingPages(m) :
      \A code \in {PAGE_FAULT_PRESENT, PAGE_FAULT_PRESENT + PAGE_FAULT_WRITE} :
        \A r \in {fault_result(s, virt_addr, code, <<"none", "none">>)} :
          r.ret = "true"
            => Readable(r.w, s, virt_addr) = Readable(TheWorld, s, virt_addr)

\* C34: after any sequence of map, handle_page_fault and fork calls, failed
\* calls included, every frame of the USER zone that is allocated (handed
\* out by buddy::alloc and not freed) is the VMem translation of at least one
\* virtual page of a live memory space: no allocated frame is unreachable.
C34_NoFrameUnreachable ==
  \A f \in allocated : Translators(vmem, f) # {}

(* ---------------- get_default_page under interleaving ------------------- *)
\* Number of frames of the buddy allocator's KERNEL zone.
NumKernelFrames == 2

\* Number of get_default_page calls of one thread of control.
MaxGets == 2

\* The frames of the KERNEL zone: the first one handed out is the frame the
\* sequential runs name DefaultFrame.
KernelZone ==
  {DefaultFrame} \cup ((NumFrames + 1) .. (NumFrames + NumKernelFrames - 1))

\* The KERNEL-zone frames handed out (get_default_page frees none, and a
\* thread of control allocates at most once).
KernelTaken == UNION {threads[t].ptr : t \in Threads}

\* buddy::alloc(0, FLAG_ZONE_TYPE_KERNEL)
kernel_alloc(taken) ==
  IF KernelZone \ taken = {} THEN {} ELSE {SetMin(KernelZone \ taken)}

\* Thread t enters get_default_page and evaluates default_page.is_none().
GetCheck(t) ==
  /\ ~panicked
  /\ threads[t].pc = "idle"
  /\ threads[t].gets < MaxGets
  /\ threads' = [threads EXCEPT ![t].pc = IF DEFAULT_PAGE = {} THEN "alloc"
                                          ELSE "unwrap"]
  /\ UNCHANGED <<live, gaps, mappings, vmem, ref_counter, allocated, content,
                 DEFAULT_PAGE, panicked, calls, ooms, gapcall>>

\* Thread t, which found None, returns from buddy::alloc: with a frame, or
\* with an error and the kernel panics.
GetAlloc(t) ==
  /\ ~panicked
  /\ threads[t].pc = "alloc"
  /\ \E ptr \in {kernel_alloc(KernelTaken)} :
       /\ threads' = [threads EXCEPT ![t].ptr = ptr,
                                     ![t].pc = IF ptr = {} THEN "panic" ELSE "store"]
       /\ panicked' = (ptr = {})
  /\ UNCHANGED <<live, gaps, mappings, vmem, ref_counter, allocated, content,
                 DEFAULT_PAGE, calls, ooms, gapcall>>

\* Thread t stores Some(ptr) in DEFAULT_PAGE.
GetStore(t) ==
  /\ ~panicked
  /\ threads[t].pc = "store"
  /\ DEFAULT_PAGE' = threads[t].ptr
  /\ threads' = [threads EXCEPT ![t].pc = "unwrap"]
  /\ UNCHANGED <<live, gaps, mappings, vmem, ref_counter, allocated, content,
                 panicked, calls, ooms, gapcall>>

\* Thread t returns default_page.unwrap().
GetReturn(t) ==
  /\ ~panicked
  /\ threads[t].pc = "unwrap"
  /\ threads' = [threads EXCEPT ![t].pc = "idle",
                                ![t].ret = @ \cup DEFAULT_PAGE,
                                ![t].gets = @ + 1]
  /\ UNCHANGED <<live, gaps, mappings, vmem, ref_counter, allocated, content,
                 DEFAULT_PAGE, panicked, calls, ooms, gapcall>>

DoGetCheck == \E t \in Threads : GetCheck(t)

DoGetAlloc == \E t \in Threads : GetAlloc(t)

DoGetStore == \E t \in Threads : GetStore(t)

DoGetReturn == \E t \in Threads : GetReturn(t)

DefaultPageNext ==
  \/ DoGetCheck
  \/ DoGetAlloc
  \/ DoGetStore
  \/ DoGetReturn

SpecDefaultPage == Init /\ [][DefaultPageNext]_vars

\* C35: in every interleaving of get_default_page calls, every call returns
\* the same frame and the default page is allocated from the KERNEL zone at
\* most once, also when a first call starts between the emptiness check and
\* the store of an earlier call that is still in the frame allocator.
C35_DefaultPageOnce ==
  /\ Cardinality(KernelTaken) <= 1
  /\ Cardinality(UNION {threads[t].ret : t \in Threads}) <= 1

\* The sizes gap_get is asked for: the sizes the runs map, and around the
\* size of every gap of the registry (half, one less, equal, one more, twice).
ProbeSizes(reg) ==
  {size \in (1 .. MaxCarve)
             \cup UNION {{g.size \div 2, g.size - 1, g.size, g.size + 1, 2 * g.size} :
                           g \in reg.tree} :
     size >= 1}

\* C36: for every reachable gap registry and every size >= 1, gap_get(size)
\* returns a gap of the registry that has at least `size` pages whenever the
\* registry holds such a gap, and None only when it holds none; the gap
\* returned is a gap of the registry as it stands (nothing is removed or
\* modified).
C36_GapGetFindsFit ==
  \A size \in ProbeSizes(gaps[1]) :
    \A found \in {gap_get(gaps[1].buckets, size)} :
      /\ \A g \in found : g \in gaps[1].tree /\ g.size >= size
      /\ (found = {}) <=> (\A g \in gaps[1].tree : g.size < size)
      /\ Cardinality(found) <= 1

\* C36 witness: after a map call the registry holds a gap that gap_get
\* returns for a size of a lower bucket (the loop moves on to the gap's
\* bucket) and does not return for a larger size of the gap's own bucket.
C36_Witness ==
  /\ calls >= 1
  /\ \E g \in gaps[1].tree :
       /\ get_gap_bucket_index(g.size) > get_gap_bucket_index(1)
       /\ get_gap_bucket_index(g.size + 1) = get_gap_bucket_index(g.size)
       /\ gap_get(gaps[1].buckets, 1) = {g}
       /\ gap_get(gaps[1].buckets, g.size + 1) = {}

\* A faulty comparison, for C37: only the first page of a mapping compares
\* equal.
mapping_cmp_first_page(val, ptr) ==
  IF ptr = val.begin THEN "Equal"
  ELSE IF ptr < val.begin THEN "Less"
  ELSE "Greater"

\* The closure MemSpace::get_mapping_for hands to cmp_get: how `ptr` compares
\* with the mapping `val`.
mapping_cmp(val, ptr) ==
  IF ptr >= val.begin /\ ptr < val.begin + val.size THEN "Equal"
  ELSE IF ptr < val.begin THEN "Less"
  ELSE "Greater"

RECURSIVE cmp_get(_, _, _, _)
\* BinaryTree::cmp_get on the part lo..hi of a tree whose in-order traversal
\* is `ms`: what the descent can return, over every shape of the tree (any
\* node of the part can be its root).
cmp_get(ms, lo, hi, ptr) ==
  IF lo > hi THEN {{}}
  ELSE UNION {IF mapping_cmp(ms[k], ptr) = "Equal" THEN {{ms[k]}}
              ELSE IF mapping_cmp(ms[k], ptr) = "Less"
                   THEN cmp_get(ms, lo, k - 1, ptr)
                   ELSE cmp_get(ms, k + 1, hi, ptr) : k \in lo .. hi}

\* C37: for every virtual address p and every reachable tree of mappings,
\* get_mapping_for(p) returns the mapping m with
\* m.begin <= p < m.begin + m.size when there is one and None otherwise,
\* whatever the shape of the tree.
C37_MappingLookup ==
  \A s \in live : \A p \in Pages \cup {PROCESS_END} :
    /\ cmp_get(SortByBegin(mappings[s]), 1, Cardinality(mappings[s]), p)
         = {{m \in mappings[s] : m.begin <= p /\ p < m.begin + m.size}}
    /\ get_mapping_for(mappings[s], p)
         = {m \in mappings[s] : m.begin <= p /\ p < m.begin + m.size}
    /\ Cardinality(get_mapping_for(mappings[s], p)) <= 1

\* C37 witness: a memory space whose tree holds two mappings of one page or
\* more, after a fork: the lookup of each page finds a different mapping and
\* the lookup of PROCESS_END finds none.
C37_Witness ==
  /\ Cardinality(live) >= 2
  /\ \E s \in live :
       /\ Cardinality({m \in mappings[s] : m.size >= 1}) >= 2
       /\ \A x \in Pages : \A y \in Pages \ {x} :
            /\ get_mapping_for(mappings[s], x) # {}
            /\ get_mapping_for(mappings[s], x) # get_mapping_for(mappings[s], y)
       /\ get_mapping_for(mappings[s], PROCESS_END) = {}

\* The (begin, size, flags) triples of a set of mappings.
Triples(maps) == {<<m.begin, m.size, m.flags>> : m \in maps}

\* C38: after a successful fork the child has exactly the gap intervals of
\* the parent, each linked (once) in the bucket of its size and nothing else
\* in its buckets, and exactly the (begin, size, flags) triples of the
\* parent's mappings; the gaps and the mappings of the parent are unchanged.
C38_ForkCopiesIndices ==
  [][\A s \in live : \A c \in SpaceIds \ live :
       ForkOk(s, c) =>
         /\ gaps'[c].tree = gaps[s].tree
         /\ \A g \in gaps'[c].tree :
              /\ Links(gaps'[c].buckets, g) = 1
              /\ \E k \in 1 .. Len(gaps'[c].buckets[get_gap_bucket_index(g.size)]) :
                   gaps'[c].buckets[get_gap_bucket_index(g.size)][k] = g
         /\ \A i \in DOMAIN gaps'[c].buckets :
              \A k \in 1 .. Len(gaps'[c].buckets[i]) :
                gaps'[c].buckets[i][k] \in gaps'[c].tree
         /\ Triples(mappings'[c]) = Triples(mappings[s])
         /\ Cardinality(mappings'[c]) = Cardinality(mappings[s])
         /\ gaps'[s] = gaps[s]
         /\ mappings'[s] = mappings[s]]_vars

\* C38 witness: the state right after the fork of a memory space that holds
\* a mapping and a gap: parent and child hold both.
C38_Witness ==
  /\ calls = 2
  /\ live = {1, 2}
  /\ mappings[1] # {} /\ Triples(mappings[2]) = Triples(mappings[1])
  /\ gaps[1].tree # {} /\ gaps[2].tree = gaps[1].tree

(* -------------------- the MemGap methods on their own ------------------- *)
\* The highest first page of a gap handed to a method.
MaxGapBegin == 3

\* The largest gap handed to a method, in pages.
MaxGapSize == 3

\* The usize arguments handed to consume: the MaxArg + 1 lowest and the
\* MaxArg + 1 highest values.
MaxArg == 4

GapInputs == {MemGap(b, n) : b \in 0 .. MaxGapBegin, n \in 1 .. MaxGapSize}

UsizeInputs == (0 .. MaxArg) \cup ((USIZE_MAX - MaxArg) .. USIZE_MAX)

\* One call gap.consume(off, size). `off + size` either panics or wraps when
\* it overflows, as the build has overflow checks or not.
ConsumeCall(gap, off, size) ==
  /\ ~panicked
  /\ gapcall.fn = "none"
  /\ \E panic \in IF add_overflows(off, size) THEN BOOLEAN ELSE {FALSE} :
       /\ gapcall' = [fn |-> "consume", gap |-> {gap}, other |-> {},
                      off |-> off, size |-> size, panic |-> panic,
                      left  |-> IF panic THEN {} ELSE consume(gap, off, size)[1],
                      right |-> IF panic THEN {} ELSE consume(gap, off, size)[2],
                      ret |-> {}]
       /\ panicked' = panic
  /\ UNCHANGED <<live, gaps, mappings, vmem, ref_counter, allocated, content,
                 DEFAULT_PAGE, calls, ooms, threads>>

\* One call gap.merge(other); `ret` is the gap after the call.
MergeCall(gap, other) ==
  /\ ~panicked
  /\ gapcall.fn = "none"
  /\ gapcall' = [fn |-> "merge", gap |-> {gap}, other |-> {other},
                 off |-> 0, size |-> 0, panic |-> FALSE,
                 left |-> {}, right |-> {}, ret |-> {merge(gap, other)}]
  /\ UNCHANGED <<live, gaps, mappings, vmem, ref_counter, allocated, content,
                 DEFAULT_PAGE, panicked, calls, ooms, threads>>

DoConsumeCall ==
  \E gap \in GapInputs : \E off \in UsizeInputs : \E size \in UsizeInputs :
    ConsumeCall(gap, off, size)

DoMergeCall == \E gap \in GapInputs : \E other \in GapInputs : MergeCall(gap, other)

GapMethodsNext ==
  \/ DoConsumeCall
  \/ DoMergeCall

SpecGapMethods == Init /\ [][GapMethodsNext]_vars

\* The pages of a gap.
GapPages(gap) == gap.begin .. (gap.begin + gap.size - 1)

C40_MergeIsUnion ==
  gapcall.fn = "merge" =>
    \A g \in gapcall.gap : \A o \in gapcall.other : \A r \in gapcall.ret :
      IF GapPages(g) \cap GapPages(o) = {}
         /\ \E p \in GapPages(g) : \E q \in GapPages(o) : p = q + 1 \/ q = p + 1
      THEN /\ GapPages(r) = GapPages(g) \cup GapPages(o)
           /\ r.begin = (IF g.begin < o.begin THEN g.begin ELSE o.begin)
           /\ r.size = g.size + o.size
      ELSE r = g

\* C40 witness: a merge with a gap that ends where the gap begins moved the
\* beginning of the gap.
C40_Witness ==
  /\ gapcall.fn = "merge"
  /\ \E g \in gapcall.gap : \E o \in gapcall.other : \E r \in gapcall.ret :
       /\ o.begin + o.size = g.begin
       /\ r.begin = o.begin
       /\ r.begin < g.begin
       /\ r.size > g.size
====
